---- MODULE Spec2Model ----
(***************************************************************************)
(* A model of the scopeguard crate (src/src/lib.rs): the Guard struct, its  *)
(* constructor guard(), Deref / DerefMut, Drop, and the defer! macro,       *)
(* together with the scope of the function that declares the guards: its    *)
(* nested blocks, the three ways of leaving it (end of block, early return, *)
(* panic) and the drop of its locals in reverse declaration order.          *)
(***************************************************************************)
EXTENDS Integers, Sequences, FiniteSets

\* ------------------------------------------------------------- bounds
\* Guards one run of the function declares.
MaxGuards == 2
\* Nesting depth of blocks in the function (1 is the function body).
MaxDepth == 2
\* Integer payloads are 0..MaxVal.
MaxVal == 1

\* The value the test's cleanup stores: drops.set(1000).
Thousand == 1000

\* ------------------------------------------------------------- values
\* T: the payload type, either () or an integer.
Unit == [ty |-> "unit", n |-> 0]
IntVal(i) == [ty |-> "int", n |-> i]
Ints == {IntVal(i) : i \in 0..MaxVal}
T == {Unit} \cup Ints

\* F: the closures given as dropfn.  "set" is the test's drops.set(1000);
\* "append" pushes a label on the log; "store" is |v| drops.set(*v);
\* "panic" raises a failure.
SetDrops == [k |-> "set", a |-> ""]
AppendLog(s) == [k |-> "append", a |-> s]
Store == [k |-> "store", a |-> ""]
Fail == [k |-> "panic", a |-> ""]
Labels == {"A", "B"}
\* Expressions defer! takes: they ignore the placeholder argument.
Exprs == {SetDrops, Fail} \cup {AppendLog(s) : s \in Labels}
\* The closure guard() is given for an integer payload: it takes it.
Takers == {Store}
F == Exprs \cup Takers

VARIABLES
    stack,    \* the live guards of the function, in declaration order
    depth,    \* the block the control is in (1 = the function body)
    pc,       \* where the control is
    drops,    \* the test's Cell, captured by reference by the closures
    log,      \* the log the "append" closures push on
    trace,    \* history: the calls of dropfn, in order: the guard, the
              \* exit it was made in, its argument and whether it raised
    ctor,     \* history: ctor[id] is guard id as it was constructed
    written,  \* history: written[id] is <<w>>, the last write through
              \* deref_mut, or << >>
    lastOp    \* the last operation, when it is a read, and what it returned

vars == <<stack, depth, pc, drops, log, trace, ctor, written, lastOp>>

\* ------------------------------------------------------------- the crate
\* pub struct Guard<T, F> { __dropfn: F, __value: T }
Guard == [dropfn : F, value : T]

\* pub fn guard(v, dropfn) -> Guard
guard(v, dropfn) == [value |-> v, dropfn |-> dropfn]

\* A deref that hands out the type's default instead of the held value.
DerefDefault(g) == IF g.value \in Ints THEN IntVal(0) ELSE g.value

\* fn deref(&self) -> &T
deref(g) == g.value

\* A closure that does nothing.
Nop == [k |-> "nop", a |-> ""]

\* A deref_mut that hands out a copy: the write is lost.
DerefMutCopy(g, w) == g

\* A deref_mut that disarms the guard.
DerefMutDefuse(g, w) == [value |-> w, dropfn |-> Nop]

\* fn deref_mut(&mut self) -> &mut T, and the write of w through it
deref_mut(g, w) == [g EXCEPT !.value = w]

\* The call of closure f on &mut v: the captured state after it, and
\* whether it raised a failure.
Invoke(f, v) ==
    [drops  |-> CASE f.k = "set" -> Thousand
                  [] f.k = "store" -> v.n
                  [] OTHER -> drops,
     log    |-> IF f.k = "append" THEN Append(log, f.a) ELSE log,
     raised |-> f.k = "panic"]

\* A drop that calls the closure twice.
DropTwice(g) ==
    LET r == Invoke(g.dropfn, g.value)
    IN [drops  |-> r.drops,
        log    |-> IF g.dropfn.k = "append" THEN Append(r.log, g.dropfn.a)
                   ELSE r.log,
        calls  |-> <<[arg |-> g.value, raised |-> r.raised],
                     [arg |-> g.value, raised |-> r.raised]>>,
        panics |-> r.raised]

\* A drop that calls the closure only when no unwind is going on.
DropOnSuccess(g) ==
    LET r == Invoke(g.dropfn, g.value)
    IN IF pc = "unwinding"
       THEN [drops |-> drops, log |-> log, calls |-> << >>, panics |-> FALSE]
       ELSE [drops  |-> r.drops,
             log    |-> r.log,
             calls  |-> <<[arg |-> g.value, raised |-> r.raised]>>,
             panics |-> r.raised]

\* A drop that catches the failure of the closure.
DropCatch(g) ==
    LET r == Invoke(g.dropfn, g.value)
    IN [drops  |-> r.drops,
        log    |-> r.log,
        calls  |-> <<[arg |-> g.value, raised |-> r.raised]>>,
        panics |-> FALSE]

\* fn drop(&mut self) { (self.__dropfn)(&mut self.__value) }
\* The captured state after it, the calls of the closure it made (the
\* argument of each and whether it raised), and whether a failure leaves it.
drop(g) ==
    LET r == Invoke(g.dropfn, g.value)
    IN [drops  |-> r.drops,
        log    |-> r.log,
        calls  |-> <<[arg |-> g.value, raised |-> r.raised]>>,
        panics |-> r.raised]

\* ------------------------------------------------------------- the scope
\* A local of the function: a guard, the block that declared it, and an
\* identity for the histories.
Local(id, g, d) == [id |-> id, g |-> g, scope |-> d]

Exiting == {"leaving", "returning", "unwinding"}
Over == {"returned", "propagated", "aborted"}

NoOp == [op |-> "none", id |-> 0, val |-> Unit]

Init ==
    /\ stack = << >>
    /\ depth = 1
    /\ pc = "body"
    /\ drops = 0
    /\ log = << >>
    /\ trace = << >>
    /\ ctor = << >>
    /\ written = << >>
    /\ lastOp = NoOp

\* A binding whose guard calls its closure when it is constructed.
LetAndRun(g) ==
    /\ pc = "body"
    /\ Len(ctor) < MaxGuards
    /\ stack' = Append(stack, Local(Len(ctor) + 1, g, depth))
    /\ ctor' = Append(ctor, g)
    /\ written' = Append(written, << >>)
    /\ lastOp' = NoOp
    /\ LET r == Invoke(g.dropfn, g.value)
       IN /\ drops' = r.drops
          /\ log' = r.log
          /\ trace' = Append(trace, [id |-> Len(ctor) + 1, via |-> pc,
                                     arg |-> g.value, raised |-> r.raised])
    /\ UNCHANGED <<depth, pc>>

\* let x = <g>;  a guard bound to a local of the current block.
Let(g) ==
    /\ pc = "body"
    /\ Len(ctor) < MaxGuards
    /\ stack' = Append(stack, Local(Len(ctor) + 1, g, depth))
    /\ ctor' = Append(ctor, g)
    /\ written' = Append(written, << >>)
    /\ lastOp' = NoOp
    /\ UNCHANGED <<depth, pc, drops, log, trace>>

\* let x = guard(v, f);  with an integer payload and a closure that takes it
Construct(v, f) ==
    /\ v \in Ints
    /\ f \in Takers
    /\ Let(guard(v, f))

\* A defer! that does not bind its guard ( guard((), |_| e); ): the guard
\* is a temporary, dropped at the end of the statement.
DeferTemporary(e) ==
    /\ e \in Exprs
    /\ pc = "body"
    /\ Len(ctor) < MaxGuards
    /\ ctor' = Append(ctor, guard(Unit, e))
    /\ written' = Append(written, << >>)
    /\ lastOp' = NoOp
    /\ LET r == Invoke(e, Unit)
       IN /\ drops' = r.drops
          /\ log' = r.log
          /\ trace' = Append(trace, [id |-> Len(ctor) + 1, via |-> pc,
                                     arg |-> Unit, raised |-> r.raised])
          /\ pc' = IF r.raised THEN "unwinding" ELSE pc
    /\ UNCHANGED <<stack, depth>>

\* defer!(e)  =>  let _guard = guard((), |_| e);
Defer(e) ==
    /\ e \in Exprs
    /\ Let(guard(Unit, e))

\* A read through the guard: *x
Deref(i) ==
    /\ pc = "body"
    /\ i \in 1..Len(stack)
    /\ lastOp' = [op |-> "deref", id |-> stack[i].id, val |-> deref(stack[i].g)]
    /\ UNCHANGED <<stack, depth, pc, drops, log, trace, ctor, written>>

\* A write through the guard: *x = w
DerefMut(i, w) ==
    /\ pc = "body"
    /\ i \in 1..Len(stack)
    /\ stack[i].g.value \in Ints
    /\ stack' = [stack EXCEPT ![i].g = deref_mut(stack[i].g, w)]
    /\ written' = [written EXCEPT ![stack[i].id] = <<w>>]
    /\ lastOp' = NoOp
    /\ UNCHANGED <<depth, pc, drops, log, trace, ctor>>

\* { : the control enters a nested block.
EnterBlock ==
    /\ pc = "body"
    /\ depth < MaxDepth
    /\ depth' = depth + 1
    /\ lastOp' = NoOp
    /\ UNCHANGED <<stack, pc, drops, log, trace, ctor, written>>

\* } : the control reaches the end of the current block.
EndBlock ==
    /\ pc = "body"
    /\ pc' = "leaving"
    /\ lastOp' = NoOp
    /\ UNCHANGED <<stack, depth, drops, log, trace, ctor, written>>

\* return; before the function's natural end.
EarlyReturn ==
    /\ pc = "body"
    /\ pc' = "returning"
    /\ lastOp' = NoOp
    /\ UNCHANGED <<stack, depth, drops, log, trace, ctor, written>>

\* A failure raised by the body (the test's assert_eq! failing).
Panic ==
    /\ pc = "body"
    /\ pc' = "unwinding"
    /\ lastOp' = NoOp
    /\ UNCHANGED <<stack, depth, drops, log, trace, ctor, written>>

\* The locals the current exit has still to drop: those of the block being
\* left, or all of them on a return or an unwind.
Pending ==
    IF pc = "leaving"
    THEN {i \in 1..Len(stack) : stack[i].scope = depth}
    ELSE 1..Len(stack)

\* Locals dropped in their declaration order.
FirstDeclared == CHOOSE i \in Pending : \A j \in Pending : i <= j

\* Locals are dropped in the reverse of their declaration order.
NextToDrop == CHOOSE i \in Pending : \A j \in Pending : j <= i

\* A failure that leaves a drop goes to the caller at once, past the
\* locals still to drop.
AfterDropSkip(panics) == IF panics THEN "propagated" ELSE pc

\* Where the control is after a drop: a failure that leaves a drop starts
\* an unwind, and one that leaves a drop during an unwind aborts the
\* process.
AfterDrop(panics) ==
    IF panics
    THEN (IF pc = "unwinding" THEN "aborted" ELSE "unwinding")
    ELSE pc

\* The exit drops one of the locals it has still to drop.
DropLocal ==
    /\ pc \in Exiting
    /\ Pending # {}
    /\ LET i == NextToDrop
           r == drop(stack[i].g)
           rest == [j \in 1..(Len(stack) - 1) |->
                       IF j < i THEN stack[j] ELSE stack[j + 1]]
       IN /\ stack' = rest
          /\ drops' = r.drops
          /\ log' = r.log
          /\ trace' = trace \o
                [k \in 1..Len(r.calls) |->
                    [id |-> stack[i].id, via |-> pc,
                     arg |-> r.calls[k].arg, raised |-> r.calls[k].raised]]
          /\ pc' = AfterDrop(r.panics)
          /\ lastOp' = NoOp
    /\ UNCHANGED <<depth, ctor, written>>

\* Nothing is left to drop: the control reaches the enclosing block, or the
\* caller (by a return, or with the failure).
Leave ==
    /\ pc \in Exiting
    /\ Pending = {}
    /\ pc' = CASE pc = "unwinding" -> "propagated"
               [] pc = "returning" -> "returned"
               [] OTHER -> IF depth > 1 THEN "body" ELSE "returned"
    /\ depth' = IF pc = "leaving" /\ depth > 1 THEN depth - 1 ELSE depth
    /\ lastOp' = NoOp
    /\ UNCHANGED <<stack, drops, log, trace, ctor, written>>

Next ==
    \/ \E v \in T, f \in F : Construct(v, f)
    \/ \E e \in F : Defer(e)
    \/ \E i \in 1..MaxGuards : Deref(i)
    \/ \E i \in 1..MaxGuards, w \in Ints : DerefMut(i, w)
    \/ EnterBlock
    \/ EndBlock
    \/ EarlyReturn
    \/ Panic
    \/ DropLocal
    \/ Leave

Spec == Init /\ [][Next]_vars

TypeOK ==
    /\ depth \in 1..MaxDepth
    /\ pc \in {"body"} \cup Exiting \cup Over
    /\ Len(ctor) \in 0..MaxGuards
    /\ \A i \in 1..Len(stack) : stack[i].g \in Guard

\* ------------------------------------------------------------- histories
\* The guards constructed so far.
Ids == 1..Len(ctor)
\* The calls of guard id's cleanup so far.
CallsIn(tr, id) == Cardinality({k \in 1..Len(tr) : tr[k].id = id})
Calls(id) == CallsIn(trace, id)
\* Guard id is a live local.
Live(id) == \E i \in 1..Len(stack) : stack[i].id = id
LiveIds == {stack[i].id : i \in 1..Len(stack)}
\* Guard id has been destroyed.
Destroyed(id) == id \in Ids /\ ~Live(id)
\* What guard id holds by its history: the last write, or else the value it
\* was constructed with.
Held(id) == IF written[id] = << >> THEN ctor[id].value ELSE written[id][1]
\* The control has reached the caller, by a return or with a failure.
AtCaller == pc \in {"returned", "propagated"}
\* Guard id was declared by defer!.
Deferred(id) == ctor[id].value = Unit

\* ------------------------------------------------------------- claims

\* C1: the cleanup of a guard is never invoked more than once, and it has
\* been invoked exactly once whenever the guard has been destroyed.
C1_AtMostOnceAndOnceDestroyed ==
    \A id \in Ids :
        /\ Calls(id) <= 1
        /\ Destroyed(id) => Calls(id) = 1

\* A guard that was constructed, read, written and destroyed.
C1_Witness ==
    \E id \in Ids :
        /\ Destroyed(id)
        /\ Calls(id) = 1
        /\ written[id] # << >>

\* C2: when the control reaches the caller (by the end of the function, an
\* early return or a failure) every guard's cleanup has been invoked exactly
\* once, on the value the guard held then, whichever exit invoked it; and
\* when the control is back in an enclosing block no guard of the block left
\* is live.
C2_CleanedBeforeControlLeaves ==
    /\ AtCaller =>
          /\ stack = << >>
          /\ \A id \in Ids : Calls(id) = 1
    /\ pc = "body" => \A i \in 1..Len(stack) : stack[i].scope <= depth
    /\ \A k \in 1..Len(trace) :
          /\ trace[k].via \in Exiting
          /\ trace[k].arg = Held(trace[k].id)

\* The caller gets the control with a failure raised by the body, after the
\* cleanup of a written guard ran in the unwind.
C2_Witness ==
    /\ pc = "propagated"
    /\ \E k \in 1..Len(trace) :
          /\ trace[k].via = "unwinding"
          /\ ~trace[k].raised
          /\ written[trace[k].id] # << >>
    /\ \A k \in 1..Len(trace) : ~trace[k].raised

\* C3: a step that runs a cleanup runs that of the last declared of the live
\* guards and leaves the earlier ones live and not invoked, so cleanups run
\* in reverse declaration order; defer! of append "A" and then, with that
\* guard live, of append "B" leave the log <<"B", "A">> at the caller.
C3_StepIsLastDeclared ==
    (trace' # trace) =>
        /\ stack # << >>
        /\ stack' = SubSeq(stack, 1, Len(stack) - 1)
        /\ \A k \in (Len(trace) + 1)..Len(trace') :
              trace'[k].id = stack[Len(stack)].id
        /\ \A i \in 1..Len(stack') : CallsIn(trace', stack'[i].id) = 0

C3_Scenario2 ==
    /\ Len(ctor) = 2
    /\ ctor[1] = guard(Unit, AppendLog("A"))
    /\ ctor[2] = guard(Unit, AppendLog("B"))

C3_ReverseOrder ==
    /\ [][C3_StepIsLastDeclared]_vars
    /\ [](\A i, j \in 1..Len(stack) : i < j => stack[i].id < stack[j].id)
    /\ []((C3_Scenario2 /\ AtCaller /\ trace[1].id = 2) => log = <<"B", "A">>)

\* defer! of append "A", then of append "B", in one block that was left.
C3_Witness ==
    /\ C3_Scenario2
    /\ pc = "returned"
    /\ trace[1].id = 2
    /\ trace[1].via = "leaving"
    /\ trace[2].via = "leaving"
    /\ log = <<"B", "A">>

\* C4: the cleanup is called on the value the guard holds when it is
\* destroyed: the last value written through the guard, or else the value of
\* construction; a "store" cleanup leaves that value in the cell.
C4_CleanupSeesLastWrite ==
    /\ \A k \in 1..Len(trace) :
          /\ trace[k].arg = Held(trace[k].id)
          /\ written[trace[k].id] # << >> =>
                trace[k].arg = written[trace[k].id][1]
    /\ (trace # << >> /\ ctor[trace[Len(trace)].id].dropfn = Store) =>
          drops = Held(trace[Len(trace)].id).n

\* A cleanup that ran on a written value that differs from the value of
\* construction.
C4_Witness ==
    \E k \in 1..Len(trace) :
        /\ written[trace[k].id] # << >>
        /\ written[trace[k].id][1] # ctor[trace[k].id].value
        /\ trace[k].arg = written[trace[k].id][1]
        /\ drops = trace[k].arg.n

\* The test: defer!(drops.set(1000)) is the one guard of the function.
TestDefer ==
    /\ Len(ctor) = 1
    /\ ctor[1] = guard(Unit, SetDrops)

\* C5: the cleanup of a live guard has not been invoked; in the test, the
\* cell reads 0 while the guard is live and 1000 once the function is left.
C5_NoCleanupWhileLive ==
    /\ \A id \in LiveIds : Calls(id) = 0
    /\ (\A id \in Ids : Live(id)) => (trace = << >> /\ drops = 0 /\ log = << >>)
    /\ TestDefer =>
          /\ Live(1) => drops = 0
          /\ AtCaller => drops = Thousand

\* The test after its function is left.
C5_Witness ==
    /\ TestDefer
    /\ pc = "returned"
    /\ drops = Thousand

\* C6: a guard declared by defer! holds the unit value and is live, its
\* action not fired, from the defer! statement on; it leaves the locals only
\* in an exit of the block that declared it (the end of that block, a return
\* or an unwind), in the step that fires its action; and it is gone when the
\* control is back in an enclosing block or at the caller.
C6_LeavesOnlyWithItsBlock ==
    \A i \in 1..Len(stack) :
        (Deferred(stack[i].id) /\ stack[i].id \notin LiveIds') =>
            /\ pc \in Exiting
            /\ pc = "leaving" => stack[i].scope = depth
            /\ CallsIn(trace', stack[i].id) = 1

C6_DeferLivesWithItsBlock ==
    /\ [][C6_LeavesOnlyWithItsBlock]_vars
    /\ [](\A id \in Ids : Deferred(id) =>
             /\ Calls(id) = 0 => Live(id)
             /\ Live(id) => Calls(id) = 0)
    /\ [](\A k \in 1..Len(trace) :
             Deferred(trace[k].id) => trace[k].via \in Exiting)
    /\ [](\A i \in 1..Len(stack) : Deferred(stack[i].id) =>
             /\ stack[i].g.value = Unit
             /\ pc = "body" => stack[i].scope <= depth
             /\ ~AtCaller)

\* A defer! of a nested block fired at the end of that block, and the
\* control is back in the function body.
C6_Witness ==
    /\ pc = "body"
    /\ depth = 1
    /\ \E k \in 1..Len(trace) :
          /\ Deferred(trace[k].id)
          /\ trace[k].via = "leaving"
    /\ \E id \in LiveIds : Deferred(id)

C7_BodyKeepsGuards ==
    (pc = "body" /\ pc' = "body") =>
        \A i \in 1..Len(stack) :
            /\ i <= Len(stack')
            /\ stack'[i].id = stack[i].id
            /\ stack'[i].g.dropfn = stack[i].g.dropfn
            /\ stack[i].g.dropfn = ctor[stack[i].id].dropfn

SomeRaised == \E k \in 1..Len(trace) : trace[k].raised

\* C8: after a cleanup raised a failure the failure is propagating (an
\* unwind is going on, or it has reached the caller, or it has aborted the
\* process): the control is never back in the body or at the caller by a
\* return; and that cleanup was called once.
C8_FailurePropagates ==
    \A k \in 1..Len(trace) :
        trace[k].raised =>
            /\ pc \in {"unwinding", "propagated", "aborted"}
            /\ Calls(trace[k].id) = 1

\* The failure of a cleanup, raised in a normal exit, at the caller.
C8_Witness ==
    /\ pc = "propagated"
    /\ \E k \in 1..Len(trace) :
          /\ trace[k].raised
          /\ trace[k].via \in {"leaving", "returning"}

\* C9: a read returns what the guard holds (the last write, or else the
\* value of construction), of a guard whose cleanup has not been invoked;
\* a read leaves the guards, the cleanup calls, the captured state and the
\* control as they are; a write leaves the control in the body and the
\* guards live; and no step in the body invokes a cleanup.
C9_ReadFrame ==
    /\ (lastOp'.op = "deref") =>
          /\ UNCHANGED <<stack, trace, drops, log, pc, depth, ctor, written>>
          /\ pc = "body"
    /\ (pc = "body" /\ pc' = "body") =>
          UNCHANGED <<trace, drops, log>>
    /\ (\E id \in Ids : written'[id] # written[id]) =>
          /\ pc' = "body"
          /\ LiveIds' = LiveIds
          /\ UNCHANGED <<trace, drops, log>>

C9_AccessIsPure ==
    /\ [][C9_ReadFrame]_vars
    /\ [](lastOp.op = "deref" =>
             /\ lastOp.val = Held(lastOp.id)
             /\ Live(lastOp.id)
             /\ Calls(lastOp.id) = 0)
    /\ [](\A i \in 1..Len(stack) : deref(stack[i].g) = Held(stack[i].id))

\* A read that returns a written value that differs from the value of
\* construction.
C9_Witness ==
    /\ lastOp.op = "deref"
    /\ written[lastOp.id] # << >>
    /\ lastOp.val = written[lastOp.id][1]
    /\ lastOp.val # ctor[lastOp.id].value

\* The first failure was raised by a cleanup in a normal exit.
FailedInNormalExit ==
    \E k \in 1..Len(trace) :
        /\ trace[k].raised
        /\ trace[k].via \in {"leaving", "returning"}
        /\ \A j \in 1..(k - 1) : ~trace[j].raised

\* C10: after a cleanup raised a failure in a normal exit, an unwind is
\* going on; every step of it invokes the cleanup of the guard declared just
\* before; and when the failure reaches the caller, the cleanup of every
\* guard has been invoked exactly once.
C10_UnwindStep ==
    (FailedInNormalExit /\ pc = "unwinding" /\ stack # << >>) =>
        /\ CallsIn(trace', stack[Len(stack)].id) = 1
        /\ stack' = SubSeq(stack, 1, Len(stack) - 1)

C10_EarlierGuardsStillCleaned ==
    /\ [][C10_UnwindStep]_vars
    /\ [](FailedInNormalExit =>
             /\ pc \in {"unwinding", "propagated", "aborted"}
             /\ (pc = "unwinding" /\ stack = << >>) =>
                    \A id \in Ids : Calls(id) = 1
             /\ pc = "propagated" => \A id \in Ids : Calls(id) = 1)

\* B's cleanup raised a failure at the end of the block, A's ran in the
\* unwind, and the failure is at the caller.
C10_Witness ==
    /\ pc = "propagated"
    /\ Len(trace) = 2
    /\ trace[1].id = 2
    /\ trace[1].raised
    /\ trace[1].via = "leaving"
    /\ trace[2].id = 1
    /\ trace[2].via = "unwinding"
    /\ ~trace[2].raised
====
